---- MODULE Spec2Model ----
(***************************************************************************)
(* State-machine model of SocketIOProvider                                 *)
(* (frontend/src/routes/blueprint.tsx, lines 45-149): the realtime session *)
(* channel that opens socket.io transports, keeps the connected and        *)
(* runtime-ready flags and the event log, and dispatches actions.          *)
(*                                                                         *)
(* JavaScript runs every handler to completion on one thread, so each      *)
(* operation (start, stop, send, setRuntimeIsInitialized) and each         *)
(* transport callback (connect, oh_event, connect_error, connect_failed,   *)
(* disconnect) is one atomic action.                                       *)
(***************************************************************************)
EXTENDS Integers, Sequences, FiniteSets, TLC

\* ---------------------------------------------------------------- bounds
\* number of transports one provider may open (calls of start)
MaxTransports == 2
\* cap on the length of the event log
MaxLog == 2

\* ---------------------------------------------------------------- values
\* sioRef.current === null
NoSocket == 0

Transports == 1..MaxTransports

\* options.token: null, the empty string, or a credential
NullToken == "null"
Tokens == {NullToken, "", "abc"}

\* payloads handed to send() and messages delivered on "oh_event"; the two
\* sets overlap because payloads are opaque values
Payloads == {"pong"}
Messages == {"pong", "obs"}

\* error values handed to connect_error / connect_failed
Errors == {"err"}

\* start() called without an options argument
NoOptions ==
  [given |-> FALSE, token |-> NullToken, onOpen |-> FALSE,
   onMessage |-> FALSE, onError |-> FALSE, onClose |-> FALSE]

\* interface SocketIOClientOptions: a token and four optional callbacks
\* (TRUE: the callback is present)
Options(tk, b) ==
  [given |-> TRUE, token |-> tk, onOpen |-> b, onMessage |-> b,
   onError |-> b, onClose |-> b]

\* the option values start() is called with: none, and every token with a
\* complete or an empty callback bundle
SocketIOClientOptions ==
  {NoOptions, Options(NullToken, TRUE), Options("", FALSE), Options("abc", TRUE)}

VARIABLES
  sioRef,         \* sioRef.current: NoSocket or the transport stored
  isConnected,    \* React state isConnected   ("connected")
  runtimeActive,  \* React state runtimeActive ("runtimeReady")
  events,         \* React state events        (the event log)
  status,         \* per transport: unopened / connecting / connected /
                  \*   disconnected / closed
  opts,           \* per transport: the callbacks of the options that the
                  \*   handlers registered by start() captured
  emitted,        \* per transport: payloads handed to sio.emit("oh_action")
  crossed,        \* history: every inbound delivery and accepted send, in order
  last            \* the step just taken, with the values it started from

vars ==
  <<sioRef, isConnected, runtimeActive, events, status, opts, emitted,
    crossed, last>>

\* values of sioRef, isConnected, runtimeActive before a step
Pre ==
  [sio |-> sioRef, connected |-> isConnected, ready |-> runtimeActive]

\* record of one step: the operation, its transport, its argument, the
\* callbacks of the options it invoked, whether it threw, and (afterStart)
\* the token of the start() that opened its transport when the step
\* directly followed that start(), else the empty sequence
Step(op, t, arg, cbs, afterStart) ==
  [op |-> op, t |-> t, arg |-> arg, pre |-> Pre, cbs |-> cbs,
   raised |-> FALSE, afterStart |-> afterStart]

\* the callbacks of an options value
Callbacks(o) ==
  [onOpen |-> o.onOpen, onMessage |-> o.onMessage, onError |-> o.onError,
   onClose |-> o.onClose]

\* options?.onX?.(arg): the invocation, when the callback is present
Invoke(o, name, arg) ==
  IF o[name] THEN << <<name, arg>> >> ELSE << >>

\* ---------------------------------------------------------------- state
Init ==
  /\ sioRef = NoSocket
  /\ isConnected = FALSE
  /\ runtimeActive = FALSE
  /\ events = << >>
  /\ status = [t \in Transports |-> "unopened"]
  /\ opts = [t \in Transports |-> Callbacks(NoOptions)]
  /\ emitted = [t \in Transports |-> << >>]
  /\ crossed = << >>
  /\ last = Step("init", NoSocket, "", << >>, << >>)

\* variant: the runtime is marked ready only while connected
setRuntimeIsInitializedGuarded ==
  /\ runtimeActive' = (runtimeActive \/ isConnected)
  /\ last' = Step("ready", NoSocket, "", << >>, << >>)
  /\ UNCHANGED <<sioRef, isConnected, events, status, opts, emitted, crossed>>

\* setRuntimeIsInitialized: setRuntimeActive(true)
setRuntimeIsInitialized ==
  /\ runtimeActive' = TRUE
  /\ last' = Step("ready", NoSocket, "", << >>, << >>)
  /\ UNCHANGED <<sioRef, isConnected, events, status, opts, emitted, crossed>>

\* the already-established check of start (line 56), the guard of stop
\* (line 107) and of send (line 115): sioRef.current is set
HasConnection == sioRef # NoSocket

\* variant: the handler appends to the events value its closure captured
\* at the first render, [...events, e] with events = []
AppendEventStale(log, e) == <<e>>

\* setEvents((prevEvents) => [...prevEvents, e])
AppendEvent(log, e) == Append(log, e)

\* the id io() gives the next transport: transports are numbered in the
\* order start() opens them
NextTransport == Cardinality({t \in Transports : status[t] # "unopened"}) + 1

\* window.location.protocol, import.meta.env.VITE_BACKEND_BASE_URL (unset)
\* and window.location.host of the page that runs the provider
PageProtocol == "https:"
EnvBaseUrl == ""
LocationHost == "localhost:3001"

\* import.meta.env.VITE_BACKEND_BASE_URL || window?.location.host
BaseUrl == IF EnvBaseUrl # "" THEN EnvBaseUrl ELSE LocationHost

\* variant: the token test is  options?.token !== null
TruthyNotNull(o) == o.given /\ o.token # NullToken

\* options?.token as a condition: undefined (no options), null and the
\* empty string are falsy
Truthy(o) == o.given /\ o.token # NullToken /\ o.token # ""

\* the endpoint handed to io(), as the sequence of the template's parts:
\* `${protocol}//${baseUrl}${options?.token ? `?token=${options.token}` : ""}`
Endpoint(o) ==
  <<PageProtocol, "//", BaseUrl>>
    \o (IF Truthy(o) THEN <<"?token=", o.token>> ELSE << >>)

\* variant: start() closes the socket it is about to replace
StartClosesPrior(o) ==
  /\ NextTransport \in Transports
  /\ status' = [t \in Transports |->
                  IF t = NextTransport THEN "connecting"
                  ELSE IF t = sioRef THEN "closed" ELSE status[t]]
  /\ opts' = [opts EXCEPT ![NextTransport] = Callbacks(o)]
  /\ sioRef' = NextTransport
  /\ last' = Step("start", NextTransport, o.token, << >>, << >>)
               @@ [url |-> Endpoint(o)]
  /\ UNCHANGED <<isConnected, runtimeActive, events, emitted, crossed>>

\* variant: start() reports the connection as open right away
StartOptimistic(o) ==
  /\ NextTransport \in Transports
  /\ status' = [status EXCEPT ![NextTransport] = "connecting"]
  /\ opts' = [opts EXCEPT ![NextTransport] = Callbacks(o)]
  /\ sioRef' = NextTransport
  /\ isConnected' = TRUE
  /\ last' = Step("start", NextTransport, o.token,
                  Invoke(Callbacks(o), "onOpen", ""), << >>)
               @@ [url |-> Endpoint(o)]
  /\ UNCHANGED <<runtimeActive, events, emitted, crossed>>

\* start(options): warns when a handle is already stored, opens a transport
\* with io(), registers the five handlers on it (they capture options), and
\* stores the handle.  No handler runs inside start.  The step records the
\* endpoint io() was called with.
Start(o) ==
  /\ NextTransport \in Transports
  /\ status' = [status EXCEPT ![NextTransport] = "connecting"]
  /\ opts' = [opts EXCEPT ![NextTransport] = Callbacks(o)]
  /\ sioRef' = NextTransport
  /\ last' = Step("start", NextTransport, o.token, << >>, << >>)
               @@ [url |-> Endpoint(o)]
  /\ UNCHANGED <<isConnected, runtimeActive, events, emitted, crossed>>

\* variant: the connect handler also marks the runtime ready
OnConnectMarksReady(t) ==
  /\ status[t] \in {"connecting", "disconnected"}
  /\ status' = [status EXCEPT ![t] = "connected"]
  /\ isConnected' = TRUE
  /\ runtimeActive' = TRUE
  /\ last' = Step("connect", t, "", Invoke(opts[t], "onOpen", ""),
                  IF last.op = "start" /\ last.t = t
                    THEN <<last.arg>> ELSE << >>)
  /\ UNCHANGED <<sioRef, events, opts, emitted, crossed>>

\* sio.on("connect"): setIsConnected(true); options?.onOpen?.()
\* The transport fires it when the first connection is established and, as
\* io() is called with the library's default reconnection, again when the
\* library re-establishes a connection that was lost.
OnConnect(t) ==
  /\ status[t] \in {"connecting", "disconnected"}
  /\ status' = [status EXCEPT ![t] = "connected"]
  /\ isConnected' = TRUE
  /\ last' = Step("connect", t, "", Invoke(opts[t], "onOpen", ""),
                  IF last.op = "start" /\ last.t = t
                    THEN <<last.arg>> ELSE << >>)
  /\ UNCHANGED <<sioRef, runtimeActive, events, opts, emitted, crossed>>

\* variant: the oh_event handler skips a message the log already holds
OnEventDedup(t, m) ==
  /\ status[t] = "connected"
  /\ Len(events) < MaxLog
  /\ events' = IF \E i \in 1..Len(events) : events[i] = m
                 THEN events ELSE AppendEvent(events, m)
  /\ crossed' = Append(crossed, <<"in", m>>)
  /\ last' = Step("oh_event", t, m, Invoke(opts[t], "onMessage", m), << >>)
  /\ UNCHANGED <<sioRef, isConnected, runtimeActive, status, opts, emitted>>

\* sio.on("oh_event"): append the message to events, then
\* options?.onMessage?.(message)
OnEvent(t, m) ==
  /\ status[t] = "connected"
  /\ Len(events) < MaxLog
  /\ events' = AppendEvent(events, m)
  /\ crossed' = Append(crossed, <<"in", m>>)
  /\ last' = Step("oh_event", t, m, Invoke(opts[t], "onMessage", m), << >>)
  /\ UNCHANGED <<sioRef, isConnected, runtimeActive, status, opts, emitted>>

\* variant: onError treats the error as the end of the connection
OnErrorDisconnects(t, kind, err) ==
  /\ status[t] \in {"connecting", "disconnected"}
  /\ isConnected' = FALSE
  /\ last' = Step(kind, t, err, Invoke(opts[t], "onError", err), << >>)
  /\ UNCHANGED <<sioRef, runtimeActive, events, status, opts, emitted, crossed>>

\* onError, registered for "connect_error" and "connect_failed":
\* EventLogger.event(err); options?.onError?.(err)
OnError(t, kind, err) ==
  /\ status[t] \in {"connecting", "disconnected"}
  /\ last' = Step(kind, t, err, Invoke(opts[t], "onError", err), << >>)
  /\ UNCHANGED <<sioRef, isConnected, runtimeActive, events, status, opts,
                 emitted, crossed>>

\* variant: the disconnect handler forgets setRuntimeActive(false)
DisconnectHandlerKeepsReady ==
  /\ isConnected' = FALSE
  /\ sioRef' = NoSocket
  /\ UNCHANGED runtimeActive

\* variant: the disconnect handler forgets sioRef.current = null
DisconnectHandlerKeepsHandle ==
  /\ isConnected' = FALSE
  /\ runtimeActive' = FALSE
  /\ UNCHANGED sioRef

\* body of the "disconnect" handler: setIsConnected(false);
\* setRuntimeActive(false); sioRef.current = null
DisconnectHandler ==
  /\ isConnected' = FALSE
  /\ runtimeActive' = FALSE
  /\ sioRef' = NoSocket

\* sio.on("disconnect"): the transport lost or ended its connection
OnDisconnect(t) ==
  /\ status[t] = "connected"
  /\ status' = [status EXCEPT ![t] = "disconnected"]
  /\ DisconnectHandler
  /\ last' = Step("disconnect", t, "", Invoke(opts[t], "onClose", ""), << >>)
  /\ UNCHANGED <<events, opts, emitted, crossed>>

\* variant: stop() calls sioRef.current.close() without the guard, which
\* throws on null
StopUnguarded ==
  /\ IF HasConnection
       THEN /\ status' = [status EXCEPT ![sioRef] = "closed"]
            /\ IF status[sioRef] = "connected"
                 THEN /\ DisconnectHandler
                      /\ last' = Step("stop", sioRef, "",
                                      Invoke(opts[sioRef], "onClose", ""),
                                      << >>)
                 ELSE /\ sioRef' = NoSocket
                      /\ last' = Step("stop", sioRef, "", << >>, << >>)
                      /\ UNCHANGED <<isConnected, runtimeActive>>
       ELSE /\ last' = [Step("stop", NoSocket, "", << >>, << >>)
                          EXCEPT !.raised = TRUE]
            /\ UNCHANGED <<sioRef, status, isConnected, runtimeActive>>
  /\ UNCHANGED <<events, opts, emitted, crossed>>

\* stop(): if a handle is stored, close() it and clear the handle.  close()
\* on a connected socket fires its "disconnect" handler before it returns;
\* on a socket that is not connected it fires nothing.
Stop ==
  /\ IF HasConnection
       THEN /\ status' = [status EXCEPT ![sioRef] = "closed"]
            /\ IF status[sioRef] = "connected"
                 THEN /\ DisconnectHandler
                      /\ last' = Step("stop", sioRef, "",
                                      Invoke(opts[sioRef], "onClose", ""),
                                      << >>)
                 ELSE /\ sioRef' = NoSocket
                      /\ last' = Step("stop", sioRef, "", << >>, << >>)
                      /\ UNCHANGED <<isConnected, runtimeActive>>
       ELSE /\ last' = Step("stop", NoSocket, "", << >>, << >>)
            /\ UNCHANGED <<sioRef, status, isConnected, runtimeActive>>
  /\ UNCHANGED <<events, opts, emitted, crossed>>

\* variant: send() logs the error but does not return, so the payload is
\* appended without a handle too
SendNoReturn(data) ==
  /\ Len(events) < MaxLog
  /\ events' = AppendEvent(events, data)
  /\ emitted' = IF HasConnection
                  THEN [emitted EXCEPT ![sioRef] = Append(@, data)]
                  ELSE emitted
  /\ crossed' = Append(crossed, <<"out", data>>)
  /\ last' = Step("send", sioRef, data, << >>, << >>)
  /\ UNCHANGED <<sioRef, isConnected, runtimeActive, status, opts>>

\* send(data): without a handle, log an error and return; otherwise append
\* data to events and emit it as "oh_action" on the stored handle
Send(data) ==
  /\ IF ~HasConnection
       THEN UNCHANGED <<events, emitted, crossed>>
       ELSE /\ Len(events) < MaxLog
            /\ events' = AppendEvent(events, data)
            /\ emitted' = [emitted EXCEPT ![sioRef] = Append(@, data)]
            /\ crossed' = Append(crossed, <<"out", data>>)
  /\ last' = Step("send", sioRef, data, << >>, << >>)
  /\ UNCHANGED <<sioRef, isConnected, runtimeActive, status, opts>>

Next ==
  \/ setRuntimeIsInitialized
  \/ \E o \in SocketIOClientOptions : Start(o)
  \/ Stop
  \/ \E data \in Payloads : Send(data)
  \/ \E t \in Transports : OnConnect(t)
  \/ \E t \in Transports, m \in Messages : OnEvent(t, m)
  \/ \E t \in Transports, kind \in {"connect_error", "connect_failed"},
        err \in Errors : OnError(t, kind, err)
  \/ \E t \in Transports : OnDisconnect(t)

Spec == Init /\ [][Next]_vars

\* the value the provider hands to SocketIOContext.Provider: the shared
\* operations and the current runtimeActive, isConnected and events
Value ==
  [send |-> "send", start |-> "start", stop |-> "stop",
   setRuntimeIsInitialized |-> "setRuntimeIsInitialized",
   runtimeActive |-> runtimeActive, isConnected |-> isConnected,
   events |-> events]

\* React.createContext(undefined): what useContext yields outside a
\* provider.  A context is the empty sequence (undefined) or holds the value.
Undefined == << >>

\* React.useContext(SocketIOContext) for a caller inside (inScope) or
\* outside the provider's subtree
UseContext(inScope) == IF inScope THEN <<Value>> ELSE Undefined

\* variant: useSocketIO returns the context without the undefined test
UseSocketIONoThrow(inScope) ==
  /\ last' = Step("useSocketIO", NoSocket, "", << >>, << >>)
               @@ [inScope |-> inScope, returned |-> UseContext(inScope)]
  /\ UNCHANGED <<sioRef, isConnected, runtimeActive, events, status, opts,
                 emitted, crossed>>

\* useSocketIO(): throws when the context is undefined, else returns it.
\* The step records whether it threw and the value it returned, if any.
UseSocketIO(inScope) ==
  /\ last' = IF UseContext(inScope) = Undefined
               THEN [Step("useSocketIO", NoSocket, "", << >>, << >>)
                       EXCEPT !.raised = TRUE]
                    @@ [inScope |-> inScope, returned |-> << >>]
               ELSE Step("useSocketIO", NoSocket, "", << >>, << >>)
                    @@ [inScope |-> inScope,
                        returned |-> UseContext(inScope)]
  /\ UNCHANGED <<sioRef, isConnected, runtimeActive, events, status, opts,
                 emitted, crossed>>

\* the provider together with its consumers.  The error events are left
\* out: onError writes no state of the provider, so the states a consumer
\* can meet are the same.
NextConsumer ==
  \/ setRuntimeIsInitialized
  \/ \E o \in SocketIOClientOptions : Start(o)
  \/ Stop
  \/ \E data \in Payloads : Send(data)
  \/ \E t \in Transports : OnConnect(t)
  \/ \E t \in Transports, m \in Messages : OnEvent(t, m)
  \/ \E t \in Transports : OnDisconnect(t)
  \/ \E inScope \in BOOLEAN : UseSocketIO(inScope)

SpecConsumer == Init /\ [][NextConsumer]_vars

\* ---------------------------------------------------------------- claims
IsPrefix(s, t) == Len(s) <= Len(t) /\ SubSeq(t, 1, Len(s)) = s

\* transports opened by start() and neither closed nor disconnected
Live == {t \in Transports : status[t] \in {"connecting", "connected"}}

\* C1: the event log is append-only: in every step of every behaviour the
\* log before the step is a prefix of the log after it.
C1_AppendOnly == [][IsPrefix(events, events')]_vars

\* C1 case: a log of two entries has then gone through a disconnect or stop
C1_Witness ==
  /\ Len(events) >= 2
  /\ last.op \in {"disconnect", "stop"}
  /\ last.pre.sio # NoSocket

\* C2: the log is exactly the history of boundary crossings: each delivered
\* inbound event once, in arrival order, mixed with the accepted sends in
\* the order they happened.
C2_LogIsCrossingHistory ==
  events = [i \in 1..Len(crossed) |-> crossed[i][2]]

\* C2 case: an inbound event, a send of an equal payload, in that order
C2_Witness ==
  /\ Len(crossed) >= 2
  /\ crossed[1] = <<"in", "pong">>
  /\ crossed[2] = <<"out", "pong">>

\* C3: a send with no handle stored leaves the log unchanged, hands nothing
\* to any transport and raises nothing.
C3_SendWithoutConnectionDrops ==
  [][(last'.op = "send" /\ sioRef = NoSocket)
       => (events' = events /\ emitted' = emitted /\ ~last'.raised)]_vars

\* C3 case: a send dropped after a disconnect event, with a non-empty log
C3_Witness ==
  /\ last.op = "send"
  /\ last.pre.sio = NoSocket
  /\ \E t \in Transports : status[t] = "disconnected"
  /\ Len(events) >= 1

\* C4: a send with a handle stored appends exactly the payload to the end
\* of the log and, in the same step, hands exactly that payload to the
\* stored transport and to no other.
C4_SendWithConnectionAppendsAndEmits ==
  [][(last'.op = "send" /\ sioRef # NoSocket)
       => /\ events' = Append(events, last'.arg)
          /\ emitted' = [emitted EXCEPT ![sioRef] = Append(@, last'.arg)]
          /\ ~last'.raised]_vars

\* C4 case: a send accepted on a non-empty log
C4_Witness ==
  /\ last.op = "send"
  /\ last.pre.sio # NoSocket
  /\ Len(events) >= 2
  /\ emitted[last.pre.sio] # << >>

\* C5: after a disconnect event connected and runtimeReady are false and
\* no handle is stored.
C5_DisconnectResets ==
  last.op = "disconnect"
    => (~isConnected /\ ~runtimeActive /\ sioRef = NoSocket)

\* C5 case: a disconnect event arriving with runtimeReady true
C5_Witness ==
  /\ last.op = "disconnect"
  /\ last.pre.ready
  /\ last.pre.connected
  /\ last.pre.sio = last.t

\* C6: after stop() no handle is stored and connected and runtimeReady are
\* false.
C6_StopLeavesDisconnected ==
  last.op = "stop"
    => (sioRef = NoSocket /\ ~isConnected /\ ~runtimeActive /\ ~last.raised)

\* C7: stop() with no handle stored changes nothing and raises nothing.
C7_StopWithoutConnectionIsNoOp ==
  [][(last'.op = "stop" /\ sioRef = NoSocket)
       => /\ UNCHANGED <<sioRef, isConnected, runtimeActive, events, status,
                         opts, emitted>>
          /\ ~last'.raised]_vars

\* C7 case: stop() without a handle, after a connection has come and gone
C7_Witness ==
  /\ last.op = "stop"
  /\ last.pre.sio = NoSocket
  /\ Len(events) >= 1
  /\ \E t \in Transports : status[t] = "disconnected"

\* C8: at most one transport opened by the provider is live.
C8_AtMostOneLive == Cardinality(Live) <= 1

\* C9: a connect_error or connect_failed event invokes onError with the
\* error value exactly when the callback is present, raises nothing, and
\* leaves connected, runtimeReady, the handle and the log unchanged.
C9_ErrorEventOnlyForwards ==
  [][(last'.op \in {"connect_error", "connect_failed"})
       => /\ last'.cbs = IF opts[last'.t].onError
                           THEN << <<"onError", last'.arg>> >> ELSE << >>
          /\ ~last'.raised
          /\ UNCHANGED <<sioRef, isConnected, runtimeActive, events>>]_vars

\* C9 case: an error event forwarded to onError while connected is true
C9_Witness ==
  /\ last.op \in {"connect_error", "connect_failed"}
  /\ last.cbs = << <<"onError", "err">> >>
  /\ isConnected
  /\ sioRef = last.t

\* C10 as stated: start() directly followed by the connect event of the
\* transport it opened yields connected true and runtimeReady false.
C10_StartConnectYieldsNotReady ==
  (last.op = "connect" /\ last.afterStart # << >>)
    => (isConnected /\ ~runtimeActive)

\* C10 amended: for every token, start() directly followed by the connect
\* event of the transport it opened yields connected true and leaves
\* runtimeReady at the value it had before start().
C10_StartConnectKeepsReady ==
  [][(last.op = "start" /\ last'.op = "connect" /\ last'.t = last.t)
       => /\ last'.afterStart = <<last.arg>>
          /\ isConnected'
          /\ runtimeActive' = last.pre.ready]_vars

\* C10 case: start({token: "abc"}) then connect, with runtimeReady true
\* since before the start()
C10_Witness ==
  /\ last.op = "connect"
  /\ last.afterStart = <<"abc">>
  /\ runtimeActive
  /\ ~last.pre.connected

\* the steps in which a handler registered by start() runs
HandlerOps ==
  {"connect", "oh_event", "connect_error", "connect_failed", "disconnect"}

\* C11 as stated: whenever connected is false, runtimeReady is false.
C11_NotConnectedNotReady == ~isConnected => ~runtimeActive

\* C11 amended: the state connected false / runtimeReady true is entered
\* only by mark-runtime-ready invoked while connected is false (no
\* disconnect leaves it behind), and connected becomes true only in the
\* connect event of a transport that start() opened.
C11_CombinedStates ==
  [][/\ (~isConnected' /\ runtimeActive')
          => \/ (~isConnected /\ runtimeActive)
             \/ (last'.op = "ready" /\ ~isConnected)
     /\ (isConnected' /\ ~isConnected)
          => /\ last'.op = "connect"
             /\ status[last'.t] \in {"connecting", "disconnected"}
             /\ status'[last'.t] = "connected"]_vars

\* C11 case: runtimeReady marked after a disconnect event reset both flags
C11_Witness ==
  /\ last.op = "ready"
  /\ ~isConnected
  /\ runtimeActive
  /\ ~last.pre.ready
  /\ \E t \in Transports : status[t] = "disconnected"

\* C12, in the step that directly follows a disconnect event: unless that
\* step is start(), connected is still false after it.  The step in which
\* the library reconnects the socket that was lost is left aside, so that
\* a violation rests on the provider's handlers alone.
C12_NoReconnectWithoutStart ==
  [][(last.op = "disconnect" /\ last'.op # "start"
        /\ ~(last'.op = "connect" /\ status[last'.t] = "disconnected"))
       => ~isConnected']_vars

\* C13: start() right after a disconnect event finds no handle stored (no
\* already-established warning) and stores a fresh transport; from then on
\* the connect event of the stored transport sets connected, and a send is
\* appended and handed to the stored transport.
C13_FreshStartAfterDisconnect ==
  [][/\ (last.op = "disconnect" /\ last'.op = "start")
          => /\ sioRef = NoSocket
             /\ status[last'.t] = "unopened"
             /\ status'[last'.t] = "connecting"
             /\ sioRef' = last'.t
             /\ ~last'.raised
     /\ (last'.op = "connect" /\ last'.t = sioRef
           /\ \E u \in Transports : status[u] = "disconnected")
          => (isConnected' /\ status'[sioRef] = "connected")
     /\ (last'.op = "send" /\ sioRef # NoSocket
           /\ \E u \in Transports : status[u] = "disconnected")
          => /\ events' = Append(events, last'.arg)
             /\ emitted'[sioRef] = Append(emitted[sioRef], last'.arg)]_vars

\* C13 case: the first transport disconnected, a second one started after
\* it, connected, and a send went out on the second
C13_Witness ==
  /\ last.op = "send"
  /\ status[1] = "disconnected"
  /\ last.pre.sio = 2
  /\ status[2] = "connected"
  /\ isConnected
  /\ emitted[2] # << >>
  /\ emitted[1] = << >>

\* C14: useSocketIO throws exactly when called outside a provider and then
\* returns nothing; inside it returns the provider's value; either way it
\* changes nothing of the provider.
C14_UseSocketIOScope ==
  [][last'.op = "useSocketIO"
       => /\ last'.raised <=> ~last'.inScope
          /\ last'.returned = IF last'.inScope THEN <<Value>> ELSE << >>
          /\ UNCHANGED <<sioRef, isConnected, runtimeActive, events, status,
                         opts, emitted>>]_vars

\* C14 case: a call outside any provider threw while a provider is connected
\* and holds a non-empty log
C14_Witness ==
  /\ last.op = "useSocketIO"
  /\ ~last.inScope
  /\ last.raised
  /\ isConnected
  /\ Len(events) >= 1

\* C15: start() with a handle stored does not fail, stores the new
\* transport, and leaves the prior transport open with its handlers able
\* to fire.
C15_SecondStartReplacesHandle ==
  (last.op = "start" /\ last.pre.sio # NoSocket)
    => /\ ~last.raised
       /\ sioRef = last.t
       /\ last.t # last.pre.sio
       /\ status[last.t] = "connecting"
       /\ status[last.pre.sio] \in {"connecting", "connected"}
       /\ status[last.pre.sio] = "connecting" => ENABLED OnConnect(last.pre.sio)
       /\ status[last.pre.sio] = "connected" => ENABLED OnDisconnect(last.pre.sio)

\* C15 case: start() while the stored transport is connected
C15_Witness ==
  /\ last.op = "start"
  /\ last.pre.sio = 1
  /\ status[1] = "connected"
  /\ sioRef = 2

\* C16: mark-runtime-ready can be invoked in every state, sets runtimeReady
\* true and leaves connected, the handle and the log unchanged.
C16_MarkReadyUnconditional ==
  /\ [](ENABLED setRuntimeIsInitialized)
  /\ [][last'.op = "ready"
          => /\ runtimeActive'
             /\ ~last'.raised
             /\ UNCHANGED <<sioRef, isConnected, events, status, opts,
                            emitted>>]_vars

\* C16 case: marked ready with connected false and no handle stored
C16_Witness ==
  /\ last.op = "ready"
  /\ ~last.pre.connected
  /\ last.pre.sio = NoSocket
  /\ runtimeActive
  /\ ~isConnected

\* C17: the start() step invokes no callback and changes neither connected,
\* runtimeReady nor the log: it stores the handle and registers the
\* handlers of the new transport.  Callbacks are invoked, and connected
\* changes, only in steps that run a handler of an opened transport (the
\* disconnect handler also runs inside stop(), when close() fires it).
C17_StartOnlyRegisters ==
  [][/\ last'.op = "start"
          => /\ last'.cbs = << >>
             /\ UNCHANGED <<isConnected, runtimeActive, events, emitted>>
             /\ sioRef' = last'.t
             /\ \A t \in Transports \ {last'.t} :
                  status'[t] = status[t] /\ opts'[t] = opts[t]
     /\ (last'.cbs # << >> \/ isConnected' # isConnected)
          => /\ last'.op \in HandlerOps \cup {"stop"}
             /\ status[last'.t] \notin {"unopened", "closed"}]_vars

\* C17 case: start() with a complete callback bundle has returned
C17_Witness ==
  /\ last.op = "start"
  /\ opts[last.t].onOpen
  /\ last.cbs = << >>
  /\ ~isConnected

\* C18 as stated: the endpoint carries the token query exactly when the
\* options hold a token other than null.
C18_QueryIffTokenSupplied ==
  last.op = "start" => (Len(last.url) > 3 <=> last.arg # NullToken)

\* C18 amended: the endpoint is protocol//host, followed by ?token=<value>
\* exactly when the token is a non-empty string; without options, with a
\* null token and with the empty token there is no query.
C18_QueryIffTokenNonEmpty ==
  last.op = "start"
    => last.url = <<PageProtocol, "//", BaseUrl>>
                    \o (IF last.arg \notin {NullToken, ""}
                          THEN <<"?token=", last.arg>> ELSE << >>)

\* C18 case: start({token: "abc"}) opened an endpoint with the query
C18_Witness ==
  /\ last.op = "start"
  /\ last.arg = "abc"
  /\ last.url = <<"https:", "//", "localhost:3001", "?token=", "abc">>

\* C19: connected is true exactly when a handle is stored and its
\* transport is connected.
C19_ConnectedIffHandleConnected ==
  isConnected <=> (sioRef # NoSocket /\ status[sioRef] = "connected")

\* C20: the handle is emptied only by stop() or by the disconnect event of
\* the transport it refers to, and an event of another transport changes
\* neither the handle nor connected nor runtimeReady.
C20_OnlyOwnTransportTouchesHandle ==
  /\ (last.pre.sio # NoSocket /\ sioRef = NoSocket)
       => \/ last.op = "stop"
          \/ (last.op = "disconnect" /\ last.t = last.pre.sio)
  /\ (last.op \in HandlerOps /\ last.pre.sio # NoSocket
        /\ last.t # last.pre.sio)
       => /\ sioRef = last.pre.sio
          /\ isConnected = last.pre.connected
          /\ runtimeActive = last.pre.ready

====
